---- MODULE Spec2Model ----
(***************************************************************************)
(* Experience-replay buffers of replay_buffer.py: ReplayBuffer (the        *)
(* "UniformBuffer" of the specification), PrioritizedReplayBuffer (the     *)
(* "StratifiedBuffer") and PrioritizedReplayBuffer2 (the                   *)
(* "WeightedStratifiedBuffer").  A process owns up to two buffer objects,  *)
(* the module-global generator of `random` and the module-global           *)
(* generator of `numpy.random`.                                            *)
(*                                                                         *)
(* Rewards are counted in halves (reward 0.5 is written 1, reward 1.0 is   *)
(* written 2), so that both thresholds, 0 and 0.5, are integers.  p_ratio  *)
(* is a multiple of 1/4 (p_ratio 0.25 is written 1), for which the         *)
(* floating-point product batch_size * p_ratio is exact.                   *)
(***************************************************************************)
EXTENDS Integers, Sequences, FiniteSets, TLC

\* ------------------------------------------------------------------ bounds
MaxCap == 2          \* largest buffer_size given to a constructor
MaxAdds == 3         \* add calls per buffer
MaxBatch == 4        \* largest batch_size given to sample_batch / last_n_batch
MaxCalls == 3        \* traced calls per buffer in the two-buffer specification

\* ------------------------------------------------------------- input sets
Classes == {"ReplayBuffer", "PrioritizedReplayBuffer", "PrioritizedReplayBuffer2"}
BufferSizes == 1 .. MaxCap
BatchSizes == 0 .. MaxBatch
\* rewards given to add, in halves: two values on either side of the
\* threshold of a two-partition class, the lower one on the threshold itself;
\* ReplayBuffer.add does not read the reward
Rewards(cls) ==
    CASE cls = "ReplayBuffer" -> {0, 2}                 \* 0.0, 1.0
      [] cls = "PrioritizedReplayBuffer" -> {0, 1}      \* 0.0, 0.5
      [] cls = "PrioritizedReplayBuffer2" -> {1, 2}     \* 0.5, 1.0
      [] OTHER -> {}
PDen == 4
PRatios == {0, 1, 2, PDen}       \* 0, 0.25, 0.5, 1
DefaultPRatio == 1               \* p_ratio=0.25
DefaultSeed == 123               \* random_seed=123
Seeds == {DefaultSeed}
PairSeeds == {DefaultSeed, DefaultSeed + 1}
PairRewards == {0}                \* 0.0, kept in the negative queue
PairBatchSizes == {1, 2}
Entropy == {7}                   \* generator states a fresh process may start in
\* arguments outside the documented preconditions: a negative and a zero
\* buffer_size beside a valid one, a negative batch_size beside valid ones
EdgeBufferSizes == {-1, 0, MaxCap}
EdgeBatchSizes == {-1, 0, 1}
EdgePRatios == {DefaultPRatio, PDen}

\* --------------------------------------------- the pseudo-random generator
\* `random` and `numpy.random` are deterministic generators: the next state
\* and the number drawn are functions of the current state.  A full-period
\* linear congruential generator stands in for the Mersenne Twister.
RngMod == 8
LcgA == 5
LcgC == 3
RandRes == 4                     \* random() is read to a quarter

SeedState(random_seed) == random_seed % RngMod

NextState(st) == (LcgA * st + LcgC) % RngMod

\* floor(random() * RandRes) for the number drawn when entering state st
Output(st) == st \div (RngMod \div RandRes)

\* int(random() * m), drawn when entering state st
RandBelow(st, m) == (Output(st) * m) \div RandRes

\* ------------------------------------------------------------------ state
\* bufs:        the buffer objects of the process (NoBuf: not constructed)
\* rng, nprng:  the states of the generators of `random` and `numpy.random`
\* np_release:  which numpy the process runs on, once it has mattered
\* added:       per buffer, the transitions given to add since the buffer was
\*              last left empty by its constructor or by a completed clear
\* last:        the last call, its arguments and what it returned or raised;
\*              pre is size() on entry, sizes the two draw sizes requested of
\*              the partitions, exp_args the arguments softmax gave to np.exp
\* calls, batches: per buffer, the calls made on it and the batches returned
VARIABLES bufs, rng, nprng, np_release, added, last, calls, batches

vars == <<bufs, rng, nprng, np_release, added, last, calls, batches>>

Bufs == {1, 2}

NoBuf == [cls |-> "none", buffer_size |-> 0, count |-> 0,
          buffer |-> <<>>, buffer_pos |-> <<>>, buffer_neg |-> <<>>]

NoRet == << <<>>, <<>>, <<>>, <<>>, <<>> >>

NoLast == [op |-> "none", b |-> 0, args |-> <<>>, raised |-> "", pre |-> 0,
           sizes |-> <<>>, exp_args |-> <<>>,
           idx |-> <<>>, pos_idx |-> <<>>, neg_idx |-> <<>>, ret |-> NoRet]

\* ---------------------------------------------------------------- helpers
Min(a, b) == IF a < b THEN a ELSE b

Range(f) == {f[i] : i \in DOMAIN f}

Injective(f) == \A i, j \in DOMAIN f : f[i] = f[j] => i = j

\* int(num / den): Python's int() truncates toward zero
IntTrunc(num, den) == IF num >= 0 THEN num \div den ELSE -((-num) \div den)

\* experience = (s, a, r, t, s2); s stands for the caller's opaque payload
Experience(s, r) == <<s, 0, r, FALSE, s>>

\* deque(maxlen=...).append
DequeAppend(q, maxlen, x) ==
    IF maxlen = 0 THEN q
    ELSE IF Len(q) = maxlen THEN Append(Tail(q), x)
    ELSE Append(q, x)

\* s_batch, a_batch, r_batch, t_batch, s2_batch
Columns(batch) ==
    << [i \in 1 .. Len(batch) |-> batch[i][1]],
       [i \in 1 .. Len(batch) |-> batch[i][2]],
       [i \in 1 .. Len(batch) |-> batch[i][3]],
       [i \in 1 .. Len(batch) |-> batch[i][4]],
       [i \in 1 .. Len(batch) |-> batch[i][5]] >>

Select(q, idx) == [i \in 1 .. Len(idx) |-> q[idx[i]]]

\* a selection loop that leaves the pool as it is: positions can repeat
RECURSIVE Pick_replace(_, _, _, _, _)
Pick_replace(pool, n, k, st, result) ==
    IF k = 0 THEN [result |-> result, state |-> st]
    ELSE Pick_replace(pool, n, k - 1, NextState(st),
                      Append(result, pool[RandBelow(NextState(st), n) + 1]))

\* the selection loop of random.sample over a pool of n entries, k more to
\* draw, from generator state st:
\*   j = int(random() * (n-i)); result[i] = pool[j]; pool[j] = pool[n-i-1]
RECURSIVE Pick(_, _, _, _, _)
Pick(pool, n, k, st, result) ==
    IF k = 0 THEN [result |-> result, state |-> st]
    ELSE Pick([pool EXCEPT ![RandBelow(NextState(st), n) + 1] = pool[n]],
              n - 1, k - 1, NextState(st),
              Append(result, pool[RandBelow(NextState(st), n) + 1]))

\* random.sample(population, k), as positions of a population of n entries
RandomSample(n, k, st) ==
    IF ~(0 <= k /\ k <= n)
    THEN [raised |-> "ValueError", result |-> <<>>, state |-> st]
    ELSE [raised |-> ""] @@ Pick([i \in 1 .. n |-> i], n, k, st, <<>>)

Size(o) ==
    IF o.cls = "ReplayBuffer" THEN o.count
    ELSE Len(o.buffer_pos) + Len(o.buffer_neg)

\* ------------------------------------------------------------ constructors
Construct(b, cls, buffer_size, random_seed) ==
    /\ bufs[b].cls = "none"
    /\ IF cls # "ReplayBuffer" /\ buffer_size < 0
       THEN \* deque([], buffer_size) raises before random.seed is reached
            /\ last' = [NoLast EXCEPT !.op = "init", !.b = b,
                           !.args = <<cls, buffer_size, random_seed>>,
                           !.raised = "ValueError"]
            /\ UNCHANGED <<bufs, rng>>
       ELSE /\ bufs' = [bufs EXCEPT ![b] =
                           [NoBuf EXCEPT !.cls = cls, !.buffer_size = buffer_size]]
            /\ rng' = SeedState(random_seed)
            /\ last' = [NoLast EXCEPT !.op = "init", !.b = b,
                           !.args = <<cls, buffer_size, random_seed>>]
    /\ UNCHANGED <<nprng, np_release, added>>

\* ------------------------------------------------------------ ReplayBuffer
\* add with `<=` for `<`: one transition too many is kept
ReplayBuffer_add_offbyone(o, experience) ==
    IF o.count <= o.buffer_size
    THEN [obj |-> [o EXCEPT !.buffer = Append(@, experience), !.count = @ + 1],
          raised |-> ""]
    ELSE [obj |-> [o EXCEPT !.buffer = Append(Tail(@), experience)],
          raised |-> ""]

\* add with pop() for popleft(): the newest transition is evicted
ReplayBuffer_add_popright(o, experience) ==
    IF o.count < o.buffer_size
    THEN [obj |-> [o EXCEPT !.buffer = Append(@, experience), !.count = @ + 1],
          raised |-> ""]
    ELSE IF o.buffer = <<>>
    THEN [obj |-> o, raised |-> "IndexError"]
    ELSE [obj |-> [o EXCEPT !.buffer = Append(SubSeq(@, 1, Len(@) - 1), experience)],
          raised |-> ""]

\* add: returns the object after the call and the exception raised, if any
ReplayBuffer_add(o, experience) ==
    IF o.count < o.buffer_size
    THEN [obj |-> [o EXCEPT !.buffer = Append(@, experience), !.count = @ + 1],
          raised |-> ""]
    ELSE IF o.buffer = <<>>
    THEN [obj |-> o, raised |-> "IndexError"]        \* popleft of an empty deque
    ELSE [obj |-> [o EXCEPT !.buffer = Append(Tail(@), experience)],
          raised |-> ""]

\* sample_batch without the `self.count < batch_size` branch
ReplayBuffer_sample_size_noclamp(o, batch_size) == batch_size

\* the second argument of random.sample in sample_batch
ReplayBuffer_sample_size(o, batch_size) ==
    IF o.count < batch_size THEN o.count ELSE batch_size

\* what a sample_batch call that raises leaves behind: the object as it was
\* and the generator state reached
Raise(o, exception, st) ==
    [obj |-> o, raised |-> exception, sizes |-> <<>>, exp_args |-> <<>>,
     idx |-> <<>>, pos_idx |-> <<>>, neg_idx |-> <<>>, batch |-> <<>>, rng |-> st]

\* sample_batch that takes its draw out of the queue
ReplayBuffer_sample_batch_pop(o, batch_size, st) ==
    LET d == RandomSample(Len(o.buffer), ReplayBuffer_sample_size(o, batch_size), st)
    IN IF d.raised # "" THEN Raise(o, d.raised, st)
       ELSE [obj |-> [o EXCEPT !.buffer = SubSeq(@, Len(d.result) + 1, Len(@))],
             raised |-> "", sizes |-> <<>>, exp_args |-> <<>>,
             idx |-> d.result, pos_idx |-> <<>>, neg_idx |-> <<>>,
             batch |-> Select(o.buffer, d.result), rng |-> d.state]

\* sample_batch: random.sample copies the population it draws from, and the
\* five columns are built from the drawn list; obj is the object after the call
ReplayBuffer_sample_batch(o, batch_size, st) ==
    LET d == RandomSample(Len(o.buffer), ReplayBuffer_sample_size(o, batch_size), st)
    IN IF d.raised # "" THEN Raise(o, d.raised, st)
       ELSE [obj |-> o, raised |-> "", sizes |-> <<>>, exp_args |-> <<>>,
             idx |-> d.result, pos_idx |-> <<>>, neg_idx |-> <<>>,
             batch |-> Select(o.buffer, d.result), rng |-> d.state]

\* last_n_batch: self.buffer[-batch_size:] is a slice of a deque, a TypeError
ReplayBuffer_last_n_batch(o, batch_size) ==
    IF o.count < batch_size
    THEN [raised |-> "", batch |-> o.buffer]
    ELSE [raised |-> "TypeError", batch |-> <<>>]

\* clear with its two statements in the other order: the count is reset
\* before the failing attribute access
ReplayBuffer_clear_countfirst(o) ==
    [obj |-> [o EXCEPT !.count = 0], raised |-> "AttributeError"]

\* clear: self.deque is not an attribute; the call raises before self.count = 0
ReplayBuffer_clear(o) == [obj |-> o, raised |-> "AttributeError"]

\* ------------------------------------------------- PrioritizedReplayBuffer
PrioritizedReplayBuffer_add(o, experience) ==
    IF experience[3] <= 0
    THEN [o EXCEPT !.buffer_neg = DequeAppend(@, o.buffer_size, experience)]
    ELSE [o EXCEPT !.buffer_pos = DequeAppend(@, o.buffer_size, experience)]

\* pos_sample_size without the clamp to the positive queue
PosSampleSize_noclamp(batch_size, p_ratio, num_pos) ==
    IntTrunc(batch_size * p_ratio, PDen)

\* pos_sample_size = int(batch_size * p_ratio), clamped to the positive queue
PosSampleSize(batch_size, p_ratio, num_pos) ==
    LET pos_sample_size == IntTrunc(batch_size * p_ratio, PDen)
    IN IF pos_sample_size > num_pos THEN num_pos ELSE pos_sample_size

\* neg_sample_size without the clamp to the negative queue
NegSampleSize_noclamp(batch_size, pos_sample_size, num_neg) ==
    batch_size - pos_sample_size

\* neg_sample_size that forgets the positive draw
NegSampleSize_full(batch_size, pos_sample_size, num_neg) ==
    IF batch_size > num_neg THEN num_neg ELSE batch_size

\* neg_sample_size = batch_size - pos_sample_size, clamped to the negative queue
NegSampleSize(batch_size, pos_sample_size, num_neg) ==
    LET neg_sample_size == batch_size - pos_sample_size
    IN IF neg_sample_size > num_neg THEN num_neg ELSE neg_sample_size

\* sample_batch that fills the batch from the positive queue when the
\* negative queue is empty
PrioritizedReplayBuffer_sample_batch_symmetric(o, batch_size, p_ratio, st) ==
    LET pos_sample_size == IF o.buffer_neg = <<>>
                           THEN Min(batch_size, Len(o.buffer_pos))
                           ELSE PosSampleSize(batch_size, p_ratio, Len(o.buffer_pos))
        neg_sample_size == NegSampleSize(batch_size, pos_sample_size, Len(o.buffer_neg))
        pos == RandomSample(Len(o.buffer_pos), pos_sample_size, st)
        neg == RandomSample(Len(o.buffer_neg), neg_sample_size, pos.state)
    IN IF pos.raised # "" \/ neg.raised # ""
       THEN Raise(o, "ValueError", st)
       ELSE [obj |-> o, raised |-> "", sizes |-> <<pos_sample_size, neg_sample_size>>,
             exp_args |-> <<>>,
             idx |-> <<>>, pos_idx |-> pos.result, neg_idx |-> neg.result,
             batch |-> Select(o.buffer_pos, pos.result) \o Select(o.buffer_neg, neg.result),
             rng |-> neg.state]

PrioritizedReplayBuffer_sample_batch(o, batch_size, p_ratio, st) ==
    LET pos_sample_size == PosSampleSize(batch_size, p_ratio, Len(o.buffer_pos))
        neg_sample_size == NegSampleSize(batch_size, pos_sample_size, Len(o.buffer_neg))
        pos == RandomSample(Len(o.buffer_pos), pos_sample_size, st)
        neg == RandomSample(Len(o.buffer_neg), neg_sample_size, pos.state)
    IN IF pos.raised # ""
       THEN [Raise(o, pos.raised, st) EXCEPT
                !.sizes = <<pos_sample_size, neg_sample_size>>]
       ELSE IF neg.raised # ""
       THEN [Raise(o, neg.raised, pos.state) EXCEPT
                !.sizes = <<pos_sample_size, neg_sample_size>>]
       ELSE [obj |-> o, raised |-> "", sizes |-> <<pos_sample_size, neg_sample_size>>,
             exp_args |-> <<>>,
             idx |-> <<>>, pos_idx |-> pos.result, neg_idx |-> neg.result,
             batch |-> Select(o.buffer_pos, pos.result) \o Select(o.buffer_neg, neg.result),
             rng |-> neg.state]

\* clear that forgets the negative queue
PrioritizedReplayBuffer_clear_pos(o) == [o EXCEPT !.buffer_pos = <<>>]

PrioritizedReplayBuffer_clear(o) == [o EXCEPT !.buffer_pos = <<>>, !.buffer_neg = <<>>]

\* ------------------------------------------------ PrioritizedReplayBuffer2
\* add that routes as PrioritizedReplayBuffer does, on r <= 0
PrioritizedReplayBuffer2_add_zero(o, experience) ==
    IF experience[3] <= 0
    THEN [o EXCEPT !.buffer_neg = DequeAppend(@, o.buffer_size, experience)]
    ELSE [o EXCEPT !.buffer_pos = DequeAppend(@, o.buffer_size, experience)]

PrioritizedReplayBuffer2_add(o, experience) ==
    IF experience[3] <= 1                             \* r <= 0.5
    THEN [o EXCEPT !.buffer_neg = DequeAppend(@, o.buffer_size, experience)]
    ELSE [o EXCEPT !.buffer_pos = DequeAppend(@, o.buffer_size, experience)]

\* pr_rewards = np.array(map(lambda x: x[2], self.buffer_pos), np.float)
pr_rewards(o) == [i \in 1 .. Len(o.buffer_pos) |-> o.buffer_pos[i][3]]

\* softmax(y): e = np.exp(np.array(y)); return e / np.sum(e).  The arguments
\* np.exp is given are the entries of y as they are; every weight returned is
\* positive.
softmax_exp_args(y) == y

\* np.random.choice(a, size, False, p) as positions 1..a.  Every entry of p is
\* positive, so every position can be chosen, none twice.  A negative size
\* is rejected (np.zeros of a negative shape), as is a size above a.
NpRandomChoiceP(a, size, st) ==
    IF size < 0 \/ size > a \/ a = 0
    THEN [raised |-> "ValueError", result |-> <<>>, state |-> st]
    ELSE [raised |-> ""] @@ Pick([i \in 1 .. a |-> i], a, size, st, <<>>)

\* np.random.choice(a, size, False) as positions 1..a: permutation(a)[:size].
\* Two things depend on the release of numpy.  An empty population is
\* rejected by the releases that check `pop_size <= 0` (strict), and accepted
\* by later ones when no sample is taken.  A negative size is not checked by
\* the strict releases, where the slice [:size] drops the last -size
\* positions of the permutation; later releases reject it.
NpRandomChoice(a, size, st, strict) ==
    IF size > a \/ (a = 0 /\ (strict \/ size # 0)) \/ (size < 0 /\ ~strict)
    THEN [raised |-> "ValueError", result |-> <<>>, state |-> st]
    ELSE [raised |-> ""] @@
         Pick([i \in 1 .. a |-> i], a, IF size >= 0 THEN size
                                        ELSE IF a + size > 0 THEN a + size ELSE 0,
              st, <<>>)

PrioritizedReplayBuffer2_sample_batch(o, batch_size, p_ratio, st, strict) ==
    LET num_pos == Len(o.buffer_pos)
        num_neg == Len(o.buffer_neg)
        pos_sample_size == PosSampleSize(batch_size, p_ratio, num_pos)
        neg_sample_size == NegSampleSize(batch_size, pos_sample_size, num_neg)
        sizes == <<pos_sample_size, neg_sample_size>>
        exp_args == IF pos_sample_size # 0 THEN softmax_exp_args(pr_rewards(o))
                    ELSE <<>>
        pos == IF pos_sample_size # 0
               THEN NpRandomChoiceP(num_pos, pos_sample_size, st)
               ELSE [raised |-> "", result |-> <<>>, state |-> st]
        neg == NpRandomChoice(num_neg, neg_sample_size, pos.state, strict)
    IN IF pos.raised # ""
       THEN [Raise(o, pos.raised, st) EXCEPT !.sizes = sizes, !.exp_args = exp_args]
       ELSE IF neg.raised # ""
       THEN [Raise(o, neg.raised, pos.state) EXCEPT
                !.sizes = sizes, !.exp_args = exp_args]
       ELSE IF pos_sample_size # 0 /\ num_neg = 0
       THEN \* np.concatenate of a (k, 5) array and the 1-d np.array(deque())
            [Raise(o, "ValueError", neg.state) EXCEPT
                !.sizes = sizes, !.exp_args = exp_args]
       ELSE [obj |-> o, raised |-> "", sizes |-> sizes, exp_args |-> exp_args,
             idx |-> <<>>, pos_idx |-> pos.result, neg_idx |-> neg.result,
             batch |-> Select(o.buffer_pos, pos.result) \o Select(o.buffer_neg, neg.result),
             rng |-> neg.state]

\* ---------------------------------------------------------------- actions
Add(b, r) ==
    LET o == bufs[b]
        experience == Experience(Len(added[b]) + 1, r)
        res == CASE o.cls = "ReplayBuffer" -> ReplayBuffer_add(o, experience)
                 [] o.cls = "PrioritizedReplayBuffer" ->
                        [obj |-> PrioritizedReplayBuffer_add(o, experience), raised |-> ""]
                 [] OTHER ->
                        [obj |-> PrioritizedReplayBuffer2_add(o, experience), raised |-> ""]
    IN /\ o.cls # "none"
       /\ Len(added[b]) < MaxAdds
       /\ added' = [added EXCEPT ![b] = Append(@, experience)]
       /\ bufs' = [bufs EXCEPT ![b] = res.obj]
       /\ last' = [NoLast EXCEPT !.op = "add", !.b = b, !.args = <<r>>,
                      !.raised = res.raised, !.pre = Size(o)]
       /\ UNCHANGED <<rng, nprng, np_release>>

\* The numpy release is one for the whole process.  It is left open until the
\* first call whose outcome depends on it, np.random.choice over an empty
\* population or with a negative size, and is fixed from then on.
NpMatters(o, batch_size) ==
    /\ o.cls = "PrioritizedReplayBuffer2"
    /\ o.buffer_neg = <<>> \/ batch_size < 0

NpStrict(o, batch_size) ==
    IF ~NpMatters(o, batch_size) THEN {TRUE}
    ELSE IF np_release = "any" THEN BOOLEAN
    ELSE {np_release = "strict"}

SampleBatch(b, batch_size, p_ratio) ==
    LET o == bufs[b]
    IN /\ o.cls # "none"
       /\ o.cls = "ReplayBuffer" => p_ratio = DefaultPRatio   \* takes no p_ratio
       /\ \E strict \in NpStrict(o, batch_size) :
            \E res \in {CASE o.cls = "ReplayBuffer" ->
                              ReplayBuffer_sample_batch(o, batch_size, rng)
                         [] o.cls = "PrioritizedReplayBuffer" ->
                              PrioritizedReplayBuffer_sample_batch(o, batch_size, p_ratio, rng)
                         [] OTHER ->
                              PrioritizedReplayBuffer2_sample_batch(o, batch_size, p_ratio,
                                                                    nprng, strict)} :
               /\ np_release' = IF ~NpMatters(o, batch_size) THEN np_release
                                 ELSE IF strict THEN "strict" ELSE "lenient"
               /\ IF o.cls = "PrioritizedReplayBuffer2"
                  THEN nprng' = res.rng /\ rng' = rng
                  ELSE rng' = res.rng /\ nprng' = nprng
               /\ bufs' = [bufs EXCEPT ![b] = res.obj]
               /\ last' = [op |-> "sample_batch", b |-> b,
                           args |-> <<batch_size, p_ratio>>, raised |-> res.raised,
                           pre |-> Size(o), sizes |-> res.sizes,
                           exp_args |-> res.exp_args,
                           idx |-> res.idx, pos_idx |-> res.pos_idx,
                           neg_idx |-> res.neg_idx,
                           ret |-> IF res.raised = "" THEN Columns(res.batch) ELSE NoRet]
       /\ UNCHANGED added

LastNBatch(b, batch_size) ==
    LET o == bufs[b]
        res == ReplayBuffer_last_n_batch(o, batch_size)
    IN /\ o.cls = "ReplayBuffer"
       /\ last' = [NoLast EXCEPT !.op = "last_n_batch", !.b = b,
                      !.args = <<batch_size>>, !.raised = res.raised,
                      !.pre = Size(o),
                      !.ret = IF res.raised = "" THEN Columns(res.batch) ELSE NoRet]
       /\ UNCHANGED <<bufs, rng, nprng, np_release, added>>

Clear(b) ==
    LET o == bufs[b]
        res == IF o.cls = "ReplayBuffer" THEN ReplayBuffer_clear(o)
               ELSE [obj |-> PrioritizedReplayBuffer_clear(o), raised |-> ""]
    IN /\ o.cls # "none"
       /\ bufs' = [bufs EXCEPT ![b] = res.obj]
       /\ last' = [NoLast EXCEPT !.op = "clear", !.b = b, !.raised = res.raised,
                      !.pre = Size(o)]
       /\ added' = IF res.raised = "" THEN [added EXCEPT ![b] = <<>>] ELSE added
       /\ UNCHANGED <<rng, nprng, np_release>>

Init ==
    /\ bufs = [b \in Bufs |-> NoBuf]
    /\ rng \in Entropy
    /\ nprng \in Entropy
    /\ np_release = "any"
    /\ added = [b \in Bufs |-> <<>>]
    /\ last = NoLast
    /\ calls = [b \in Bufs |-> <<>>]
    /\ batches = [b \in Bufs |-> <<>>]

Untraced == UNCHANGED <<calls, batches>>

\* the record of a buffer's calls and of the batches its sample_batch returned
Traced(b, call) ==
    /\ calls' = [calls EXCEPT ![b] = Append(@, call)]
    /\ batches' = IF last'.op # "sample_batch" THEN batches
                  ELSE IF last'.raised # ""
                  THEN [batches EXCEPT ![b] = Append(@, <<last'.raised>>)]
                  ELSE [batches EXCEPT ![b] = Append(@, last'.ret)]

\* one buffer object, every class, every operation
Next ==
    \/ \E cls \in Classes, n \in BufferSizes, seed \in Seeds :
           Construct(1, cls, n, seed) /\ Untraced
    \/ \E r \in Rewards(bufs[1].cls) : Add(1, r) /\ Untraced
    \/ \E n \in BatchSizes, p \in PRatios : SampleBatch(1, n, p) /\ Untraced
    \/ \E n \in BatchSizes : LastNBatch(1, n) /\ Untraced
    \/ Clear(1) /\ Untraced

Spec == Init /\ [][Next]_vars

\* two buffer objects of one class and capacity in one process, their
\* constructions and their add / sample_batch calls interleaved in any order
PairNext ==
    \/ \E b \in Bufs, cls \in Classes, seed \in PairSeeds :
           /\ \A c \in Bufs : bufs[c].cls \in {"none", cls}
           /\ Construct(b, cls, MaxCap, seed)
           /\ Traced(b, <<"init", cls, MaxCap, seed>>)
    \/ \E b \in Bufs, r \in PairRewards :
           /\ Len(calls[b]) <= MaxCalls
           /\ Add(b, r)
           /\ Traced(b, <<"add", r>>)
    \/ \E b \in Bufs, n \in PairBatchSizes :
           /\ Len(calls[b]) <= MaxCalls
           /\ SampleBatch(b, n, DefaultPRatio)
           /\ Traced(b, <<"sample_batch", n>>)

PairSpec == Init /\ [][PairNext]_vars

\* one buffer object, constructed and called with arguments at and beyond the
\* edge of the preconditions
EdgeNext ==
    \/ \E cls \in Classes, n \in EdgeBufferSizes, seed \in Seeds :
           Construct(1, cls, n, seed) /\ Untraced
    \/ \E r \in Rewards(bufs[1].cls) : Add(1, r) /\ Untraced
    \/ \E n \in EdgeBatchSizes, p \in EdgePRatios : SampleBatch(1, n, p) /\ Untraced
    \/ Clear(1) /\ Untraced

EdgeSpec == Init /\ [][EdgeNext]_vars

\* ================================================================= claims
\* the k most recent entries of a sequence, oldest first
LastN(q, k) == SubSeq(q, Len(q) - k + 1, Len(q))

\* the rows of a returned five-column batch
Rows(ret) == [i \in 1 .. Len(ret[1]) |-> <<ret[1][i], ret[2][i], ret[3][i], ret[4][i], ret[5][i]>>]

SameLength(ret, n) == \A c \in 1 .. 5 : Len(ret[c]) = n

Sampled(cls) ==
    /\ last.op = "sample_batch"
    /\ bufs[last.b].cls = cls

\* C1: with buffer_size >= 1, a ReplayBuffer never holds more than
\* buffer_size transitions and size() <= buffer_size; in the two-partition
\* classes the positive and the negative queue each hold at most buffer_size.
C1_CapacityInvariant ==
    \A b \in Bufs :
        LET o == bufs[b]
        IN (o.cls # "none" /\ o.buffer_size >= 1) =>
              /\ Len(o.buffer) <= o.buffer_size
              /\ o.cls = "ReplayBuffer" => Size(o) <= o.buffer_size
              /\ Len(o.buffer_pos) <= o.buffer_size
              /\ Len(o.buffer_neg) <= o.buffer_size

\* a full queue that has already evicted: more adds than buffer_size
C1_Witness ==
    /\ last.op = "add"
    /\ bufs[1].cls = "ReplayBuffer"
    /\ Len(added[1]) > bufs[1].buffer_size
    /\ Len(bufs[1].buffer) = bufs[1].buffer_size

\* C2: after n add calls on a ReplayBuffer of buffer_size c >= 1 the queue is
\* the last min(n, c) added transitions in insertion order, oldest first.
C2_FifoEviction ==
    \A b \in Bufs :
        LET o == bufs[b]
        IN (o.cls = "ReplayBuffer" /\ o.buffer_size >= 1) =>
              o.buffer = LastN(added[b], Min(Len(added[b]), o.buffer_size))

\* buffer_size + 1 adds: the first-added transition is gone, the rest stored
C2_Witness ==
    /\ bufs[1].cls = "ReplayBuffer"
    /\ bufs[1].buffer_size >= 2
    /\ Len(added[1]) = bufs[1].buffer_size + 1
    /\ added[1][1] \notin Range(bufs[1].buffer)
    /\ bufs[1].buffer = Tail(added[1])

\* C3: every transition a sample_batch call returns is stored in the buffer
\* at the time of the call, and no queue position is returned twice.
C3_WithoutReplacement ==
    (last.op = "sample_batch" /\ last.raised = "") =>
        LET o == bufs[last.b]
        IN /\ Injective(last.idx)
           /\ Injective(last.pos_idx)
           /\ Injective(last.neg_idx)
           /\ Range(last.idx) \subseteq DOMAIN o.buffer
           /\ Range(last.pos_idx) \subseteq DOMAIN o.buffer_pos
           /\ Range(last.neg_idx) \subseteq DOMAIN o.buffer_neg
           /\ Rows(last.ret) = Select(o.buffer, last.idx)
                                 \o Select(o.buffer_pos, last.pos_idx)
                                 \o Select(o.buffer_neg, last.neg_idx)
           /\ Injective(Rows(last.ret))

\* a draw of two or more transitions from one queue
C3_Witness ==
    /\ last.op = "sample_batch"
    /\ last.raised = ""
    /\ Len(last.neg_idx) >= 2

\* C4: ReplayBuffer.sample_batch(batch_size >= 0) returns min(batch_size,
\* size()) transitions without raising, all stored transitions when
\* batch_size > size(), in five columns of that one length.
C4_UniformClamp ==
    (Sampled("ReplayBuffer") /\ last.args[1] >= 0) =>
        LET o == bufs[last.b]
        IN /\ last.raised = ""
           /\ SameLength(last.ret, Min(last.args[1], Size(o)))
           /\ last.args[1] > Size(o) => Range(Rows(last.ret)) = Range(o.buffer)

\* an oversized request on a buffer that holds something
C4_Witness ==
    /\ Sampled("ReplayBuffer")
    /\ Size(bufs[last.b]) >= 2
    /\ last.args[1] > Size(bufs[last.b])

\* floor(batch_size * p_ratio) for batch_size >= 0
FloorRatio(batch_size, p_ratio) == (batch_size * p_ratio) \div PDen

\* C5: PrioritizedReplayBuffer.sample_batch(batch_size >= 0, p_ratio in
\* [0, 1]) returns P = min(floor(batch_size * p_ratio), |positive queue|)
\* transitions of the positive queue followed by min(batch_size - P,
\* |negative queue|) transitions of the negative queue; sample_batch(20, 0.25)
\* with at least 5 positive and 15 negative stored draws 5 and 15.
C5_RatioTargeting ==
    /\ Sampled("PrioritizedReplayBuffer") =>
          LET o == bufs[last.b]
              P == Min(FloorRatio(last.args[1], last.args[2]), Len(o.buffer_pos))
              N == Min(last.args[1] - P, Len(o.buffer_neg))
              rows == Rows(last.ret)
          IN /\ last.raised = ""
             /\ Len(rows) = P + N
             /\ \A i \in 1 .. P : rows[i] \in Range(o.buffer_pos)
             /\ \A i \in P + 1 .. P + N : rows[i] \in Range(o.buffer_neg)
    /\ \A num_pos \in 5 .. 7, num_neg \in 15 .. 17 :
          /\ PosSampleSize(20, DefaultPRatio, num_pos) = 5
          /\ NegSampleSize(20, PosSampleSize(20, DefaultPRatio, num_pos), num_neg) = 15

\* both draws non-empty, with more positives stored than drawn
C5_Witness ==
    /\ Sampled("PrioritizedReplayBuffer")
    /\ Len(last.pos_idx) >= 1
    /\ Len(last.neg_idx) >= 1
    /\ Len(last.pos_idx) < Len(bufs[last.b].buffer_pos)

Partitioned == {"PrioritizedReplayBuffer", "PrioritizedReplayBuffer2"}

\* a default-ratio sample_batch on a two-partition buffer that holds fewer
\* transitions than requested
UndersizedPartitioned ==
    /\ last.op = "sample_batch"
    /\ bufs[last.b].cls \in Partitioned
    /\ last.args[2] = DefaultPRatio
    /\ Size(bufs[last.b]) < last.args[1]

C8_ClearEmpties ==
    (last.op = "clear" /\ bufs[last.b].cls = "ReplayBuffer") =>
        /\ last.raised = ""
        /\ bufs[last.b].buffer = <<>>
        /\ Size(bufs[last.b]) = 0

\* C9 as stated: ReplayBuffer.last_n_batch(n >= 0) returns the min(n, size())
\* most recently added transitions in insertion order, most recent last.
C9_LastNBatch ==
    (last.op = "last_n_batch" /\ last.args[1] >= 0) =>
        LET o == bufs[last.b]
        IN /\ last.raised = ""
           /\ Rows(last.ret) = LastN(o.buffer, Min(last.args[1], Size(o)))

\* C10 as stated: two buffers of one class constructed with the same
\* arguments and given the same sequence of add and sample_batch calls have
\* returned the same batches, however their calls are interleaved.
C10_Determinism ==
    (calls[1] # <<>> /\ calls[1] = calls[2]) => batches[1] = batches[2]

\* the buffer of the last call holds no transitions
HoldsNothing ==
    LET o == bufs[last.b]
    IN o.buffer = <<>> /\ o.buffer_pos = <<>> /\ o.buffer_neg = <<>>

\* C11 as stated: on a buffer of any of the three classes that holds no
\* transitions, sample_batch(batch_size >= 0) returns five sequences of
\* length 0 without raising, and size() is 0 before and after the call.
C11_EmptySampling ==
    (last.op = "sample_batch" /\ last.args[1] >= 0 /\ HoldsNothing) =>
        /\ last.raised = ""
        /\ SameLength(last.ret, 0)
        /\ last.pre = 0
        /\ Size(bufs[last.b]) = 0

\* a constructor call with a non-positive buffer_size was rejected: it raised
\* and no object exists
RejectedCapacity ==
    (last.op = "init" /\ last.args[2] <= 0) =>
        /\ last.raised # ""
        /\ bufs[last.b].cls = "none"

\* a sample_batch call with a negative batch_size was rejected: it raised and
\* the buffer holds what it held
RejectedBatchSize ==
    (last.op = "sample_batch" /\ last.args[1] < 0) =>
        /\ last.raised # ""
        /\ Size(bufs[last.b]) = last.pre

\* C12 as stated: constructing a buffer of any class with a non-positive
\* capacity raises at construction, and sample_batch with a negative
\* batch_size raises at the call and leaves the stored contents as they were.
C12_FailFast == RejectedCapacity /\ RejectedBatchSize

\* C13 as stated: on a buffer of any class constructed with buffer_size = 0
\* every add completes without raising and stores nothing, size() stays 0,
\* and every sample_batch(batch_size >= 0) returns five empty sequences
\* without raising.
C13_ZeroCapacity ==
    (last.op \in {"add", "sample_batch"} /\ bufs[last.b].buffer_size = 0) =>
        /\ HoldsNothing
        /\ last.pre = 0
        /\ Size(bufs[last.b]) = 0
        /\ last.op = "add" => last.raised = ""
        /\ (last.op = "sample_batch" /\ last.args[1] >= 0) =>
              (last.raised = "" /\ SameLength(last.ret, 0))

\* the routing threshold of a two-partition class, in halves: 0 and 0.5
Threshold(cls) == IF cls = "PrioritizedReplayBuffer" THEN 0 ELSE 1

\* every stored transition is in the queue its reward routes to
Routed ==
    \A b \in Bufs :
        LET o == bufs[b]
        IN o.cls \in Partitioned =>
              /\ \A i \in DOMAIN o.buffer_pos : o.buffer_pos[i][3] > Threshold(o.cls)
              /\ \A i \in DOMAIN o.buffer_neg : o.buffer_neg[i][3] <= Threshold(o.cls)

Positives(q, cls) == SelectSeq(q, LAMBDA e : e[3] > Threshold(cls))

Negatives(q, cls) == SelectSeq(q, LAMBDA e : e[3] <= Threshold(cls))

\* each partition is the last min(n, buffer_size) of the n transitions routed
\* to it since the buffer was constructed or last cleared, oldest first
PartitionFifo ==
    \A b \in Bufs :
        LET o == bufs[b]
            pos == Positives(added[b], o.cls)
            neg == Negatives(added[b], o.cls)
        IN (o.cls \in Partitioned /\ o.buffer_size >= 1) =>
              /\ o.buffer_pos = LastN(pos, Min(Len(pos), o.buffer_size))
              /\ o.buffer_neg = LastN(neg, Min(Len(neg), o.buffer_size))

\* C15: clear() on PrioritizedReplayBuffer and PrioritizedReplayBuffer2
\* completes, empties both queues so that size() is 0, and leaves buffer_size
\* as configured: no call changes buffer_size, and the adds after a clear
\* again keep each partition to its last buffer_size routed transitions.
C15_ClearKeepsCapacity ==
    /\ []PartitionFifo
    /\ [][/\ (last'.op = "clear" /\ bufs[last'.b].cls \in Partitioned) =>
                LET o == bufs[last'.b]
                    after == bufs'[last'.b]
                IN /\ last'.raised = ""
                   /\ after.buffer_pos = <<>>
                   /\ after.buffer_neg = <<>>
                   /\ Size(after) = 0
                   /\ after.buffer_size = o.buffer_size
                   /\ after.cls = o.cls
          /\ \A b \in Bufs :
                bufs[b].cls # "none" => bufs'[b].buffer_size = bufs[b].buffer_size]_vars

\* a clear that emptied a two-partition buffer holding transitions in both
\* of its queues
C15_Witness ==
    /\ last.op = "clear"
    /\ bufs[last.b].cls \in Partitioned
    /\ bufs[last.b].buffer_size = MaxCap
    /\ last.pre > MaxCap
    /\ HoldsNothing

\* C16 as stated: in PrioritizedReplayBuffer2.sample_batch, when the clamped
\* pos_sample_size is 0 the weighted choice is not executed and a returned
\* batch is exactly the negative draw; when it is above 0 the weighted choice
\* is executed over a weight vector of length |positive queue| > 0 and the
\* call returns the positive draw followed by the negative draw.
C16_WeightedGuard ==
    Sampled("PrioritizedReplayBuffer2") =>
        LET o == bufs[last.b]
            pos_sample_size == last.sizes[1]
        IN /\ pos_sample_size = 0 =>
                 /\ last.exp_args = <<>>
                 /\ last.pos_idx = <<>>
                 /\ last.raised = "" => Rows(last.ret) = Select(o.buffer_neg, last.neg_idx)
           /\ pos_sample_size > 0 =>
                 /\ last.exp_args # <<>>
                 /\ Len(last.exp_args) = Len(o.buffer_pos)
                 /\ last.raised = ""
                 /\ Len(last.pos_idx) = pos_sample_size
                 /\ Rows(last.ret) = Select(o.buffer_pos, last.pos_idx)
                                       \o Select(o.buffer_neg, last.neg_idx)

\* the largest entry of a non-empty sequence of numbers
SeqMax(y) == CHOOSE m \in Range(y) : \A i \in DOMAIN y : y[i] <= m

\* C17 as stated, for the calls that return: softmax subtracts max(r) from
\* every reward before exponentiating, so the arguments np.exp is given are
\* r_i - max(r), all of them <= 0 and at least one of them 0.
C17_StableSoftmax ==
    (Sampled("PrioritizedReplayBuffer2") /\ last.raised = "" /\ last.exp_args # <<>>) =>
        LET r == pr_rewards(bufs[last.b])
        IN /\ last.exp_args = [i \in DOMAIN r |-> r[i] - SeqMax(r)]
           /\ \A i \in DOMAIN last.exp_args : last.exp_args[i] <= 0
           /\ \E i \in DOMAIN last.exp_args : last.exp_args[i] = 0

\* C18: in every state of a ReplayBuffer, whatever calls were made on it and
\* whether they returned or raised, self.count is the number of transitions
\* in self.buffer, so size() is the number of transitions stored.
C18_CountConsistent ==
    \A b \in Bufs :
        LET o == bufs[b]
        IN o.cls = "ReplayBuffer" =>
              /\ o.count = Len(o.buffer)
              /\ Size(o) = Len(o.buffer)

\* a clear that raised on a full ReplayBuffer that had already evicted
C18_Witness ==
    /\ last.op = "clear"
    /\ last.raised # ""
    /\ bufs[last.b].cls = "ReplayBuffer"
    /\ Len(added[last.b]) > bufs[last.b].buffer_size
    /\ bufs[last.b].count = bufs[last.b].buffer_size
    /\ bufs[last.b].count >= 2

\* C19: a sample_batch call on a buffer of any of the three classes, whether
\* it returns or raises, leaves every queue (entries and order), count,
\* buffer_size and size() as they were; of the program's state only the
\* generators' states change.
C19_SampleReadOnly ==
    [][last'.op = "sample_batch" =>
          /\ bufs' = bufs
          /\ Size(bufs'[last'.b]) = last'.pre
          /\ added' = added]_vars

\* a ReplayBuffer.sample_batch that returned two or more transitions and
\* advanced the generator
C19_Witness ==
    /\ Sampled("ReplayBuffer")
    /\ last.raised = ""
    /\ Len(last.idx) >= 2
    /\ last.pre = Size(bufs[last.b])
    /\ rng # SeedState(DefaultSeed)

\* C20: in sample_batch of the two-partition classes, for batch_size >= 0
\* and p_ratio in [0, 1], the draw sizes satisfy 0 <= pos_sample_size <=
\* |positive queue| and 0 <= neg_sample_size <= |negative queue|, a returning
\* call draws exactly that many from each queue, and the batch has at most
\* min(batch_size, size()) transitions.
C20_DrawSizes ==
    (last.op = "sample_batch" /\ bufs[last.b].cls \in Partitioned
        /\ last.args[1] >= 0) =>
        LET o == bufs[last.b]
            pos_sample_size == last.sizes[1]
            neg_sample_size == last.sizes[2]
        IN /\ 0 <= pos_sample_size /\ pos_sample_size <= Len(o.buffer_pos)
           /\ 0 <= neg_sample_size /\ neg_sample_size <= Len(o.buffer_neg)
           /\ pos_sample_size + neg_sample_size <= Min(last.args[1], Size(o))
           /\ Len(last.ret[1]) <= Min(last.args[1], Size(o))
           /\ last.raised = "" =>
                 /\ Len(last.pos_idx) = pos_sample_size
                 /\ Len(last.neg_idx) = neg_sample_size

\* both clamps bite: each queue holds something, but less than its share
C20_Witness ==
    /\ last.op = "sample_batch"
    /\ bufs[last.b].cls \in Partitioned
    /\ last.raised = ""
    /\ last.sizes[1] >= 1
    /\ last.sizes[1] = Len(bufs[last.b].buffer_pos)
    /\ FloorRatio(last.args[1], last.args[2]) > last.sizes[1]
    /\ last.sizes[2] >= 1
    /\ last.sizes[2] = Len(bufs[last.b].buffer_neg)
    /\ last.args[1] - last.sizes[1] > last.sizes[2]
====
